---- MODULE Spec2Model ----
(***************************************************************************)
(* A model of DenseNetNotebook.ipynb: the construction of a DenseNet (the  *)
(* channel bookkeeping of _DenseLayer, _DenseBlock, _Transition and        *)
(* DenseNet.__init__), the shapes of its forward pass, the training loop   *)
(* train_model and visualize_model.                                        *)
(*                                                                         *)
(* A tensor is modelled by its shape and by where its channels come from:  *)
(* segs is the sequence of channel groups [src, k] (k channels computed by *)
(* the module named src), in channel order.  Values are not modelled.      *)
(***************************************************************************)
EXTENDS Integers, Sequences, FiniteSets, TLC

(***************************************************************************)
(* Bounds of the model and the inputs drawn.                               *)
(***************************************************************************)
MaxStages == 3
MaxLayers == 1
MaxSize == 56
MaxEpochs == 3
MaxDatasetSize == 5
MaxImages == 3

GrowthRates == {1, 2}
InitFeatures == {1, 3}
BnSizes == {4}
DropRates == {0, 50}            \* drop_rate in percent: 0, and .5 as in the notebook's test
ClassCounts == {3}
BatchSizes == {2}
DecayPeriods == {1, 2, 7}       \* lr_decay_epoch: short periods, and the default
WidthOffsets == {0, 1}      \* the width is the height plus one of these

(***************************************************************************)
(* Constants of the program.                                               *)
(***************************************************************************)
InputChannels == 3              \* nn.Conv2d(3, num_init_features, ...)
DefaultGrowthRate == 32
DefaultBlockConfig == <<6, 12, 24, 16>>
DefaultNumInitFeatures == 64
DefaultBnSize == 4
DefaultDropRate == 0
DefaultNumClasses == 1000
FinalPoolKernel == 7            \* F.avg_pool2d(out, kernel_size=7)
CropSize == 224                 \* transforms.RandomSizedCrop(224), CenterCrop(224)
FineTuneClasses == 2            \* nn.Linear(num_ftrs, 2)
LoaderBatchSize == 4            \* DataLoader(dsets[x], batch_size=4, ...)

VARIABLES
    pc,             \* where the program is
    call,           \* the call being made: which function, with which arguments
    args,           \* the arguments DenseNet.__init__ runs with
    features,       \* self.features: the modules added so far
    num_features,   \* DenseNet.__init__'s running channel count
    stage,          \* DenseNet.__init__'s loop index i
    classifier,     \* self.classifier
    pretrained_loaded,  \* load_state_dict has run
    img,            \* the input batch's shape (N, 3, H, W)
    x,              \* forward: the tensor flowing through self.features
    xin,            \* forward: the input of the module applied last
    last,           \* forward: the module applied last
    pos,            \* forward: <<index of the next module of features, layers done in it>>
    out,            \* forward: the 2-d tensor after view, then the logits
    \* train_model
    tpc,            \* where train_model is
    num_epochs,     \* its argument
    lr_decay_epoch, \* optim_scheduler's decay period
    train_size,     \* dset_sizes['train']
    val_size,       \* dset_sizes['val']
    epoch,          \* the loop variable
    phase,          \* 'train' or 'val'
    bi,             \* batches of the current phase's loader already processed
    running_corrects,
    optimizer,      \* the optimizer optim_scheduler returned last
    params,         \* the live model's parameters: the number of optimizer steps they took
    best_acc,       \* a fraction <<numerator, denominator>>
    best_model,     \* the live model itself, or a deep copy holding the parameters copied
    returned_model, \* what train_model returned
    fault,          \* the step of a batch that raised, or "none"
    n_backward,     \* history: calls of loss.backward()
    n_step,         \* history: calls of optimizer.step()
    n_train,        \* history: training batches processed
    n_val,          \* history: validation batches processed
    params_after_train, \* history: params when the last training phase ended
    max_val,        \* history: the largest validation accuracy of the epochs run
    params_at_max,  \* history: params at the end of the first epoch that reached max_val
    sched_log,      \* history: per call of optim_scheduler, the epoch, exponent and message
    \* visualize_model
    vpc,            \* where visualize_model is
    num_images,     \* its argument
    vi,             \* enumerate's index i
    rendered        \* the figures shown, in order

netvars == <<pc, call, args, features, num_features, stage, classifier,
             pretrained_loaded, img, x, xin, last, pos, out>>

trainvars == <<tpc, num_epochs, lr_decay_epoch, train_size, val_size, epoch, phase, bi,
               running_corrects, optimizer, params, best_acc, best_model, returned_model,
               fault, n_backward, n_step, n_train, n_val, params_after_train, max_val,
               params_at_max, sched_log>>

visvars == <<vpc, num_images, vi, rendered>>

vars == <<netvars, trainvars, visvars>>

(***************************************************************************)
(* Modules (the constructors).                                             *)
(***************************************************************************)
Conv2d(name, cin, cout, k, s, p) ==
    [kind |-> "conv", name |-> name, cin |-> cin, cout |-> cout, k |-> k, s |-> s, p |-> p]

BatchNorm2d(c) == [kind |-> "bn", c |-> c]

ReLU == [kind |-> "relu"]

MaxPool2d(k, s, p) == [kind |-> "maxpool", k |-> k, s |-> s, p |-> p]

AvgPool2d(k, s) == [kind |-> "avgpool", k |-> k, s |-> s, p |-> 0]

Linear(fin, fout) == [kind |-> "linear", fin |-> fin, fout |-> fout]

NoModule == [kind |-> "none"]

\* _DenseLayer.__init__
DenseLayerInit(name, num_input_features, growth_rate, bn_size, drop_rate) ==
    [kind |-> "denselayer",
     name |-> name,
     num_input_features |-> num_input_features,
     growth_rate |-> growth_rate,
     mods |-> << BatchNorm2d(num_input_features),
                 ReLU,
                 Conv2d(<<name, "conv.1">>, num_input_features, bn_size * growth_rate, 1, 1, 0),
                 BatchNorm2d(bn_size * growth_rate),
                 ReLU,
                 Conv2d(<<name, "conv.2">>, bn_size * growth_rate, growth_rate, 3, 1, 1) >>,
     drop_rate |-> drop_rate]

\* (mutant) every layer is built for the block's input count
LayerInputFeaturesFlat(num_input_features, i, growth_rate) == num_input_features

\* the channel count _DenseBlock.__init__ gives its layer i (0-based)
LayerInputFeatures(num_input_features, i, growth_rate) == num_input_features + i * growth_rate

\* _DenseBlock.__init__
DenseBlockInit(name, num_layers, num_input_features, bn_size, growth_rate, drop_rate) ==
    [kind |-> "denseblock",
     name |-> name,
     num_input_features |-> num_input_features,
     layers |-> [j \in 1..num_layers |->
                   DenseLayerInit(<<name, "denselayer", j>>,
                                  LayerInputFeatures(num_input_features, j - 1, growth_rate),
                                  growth_rate, bn_size, drop_rate)]]

\* (mutant) the pooling window moves by one pixel
TransitionInitStride1(name, num_input_features, num_output_features) ==
    [kind |-> "transition",
     name |-> name,
     num_input_features |-> num_input_features,
     num_output_features |-> num_output_features,
     mods |-> << BatchNorm2d(num_input_features),
                 ReLU,
                 Conv2d(<<name, "conv">>, num_input_features, num_output_features, 1, 1, 0),
                 AvgPool2d(2, 1) >>]

\* _Transition.__init__
TransitionInit(name, num_input_features, num_output_features) ==
    [kind |-> "transition",
     name |-> name,
     num_input_features |-> num_input_features,
     num_output_features |-> num_output_features,
     mods |-> << BatchNorm2d(num_input_features),
                 ReLU,
                 Conv2d(<<name, "conv">>, num_input_features, num_output_features, 1, 1, 0),
                 AvgPool2d(2, 2) >>]

(***************************************************************************)
(* The calls: DenseNet(...) with the arguments drawn, and densenet121.     *)
(***************************************************************************)
BlockConfigs == UNION {[1..n -> 0..MaxLayers] : n \in 1..MaxStages}

NoKwargs == [has_num_classes |-> FALSE, num_classes |-> 0]

Kwargs == {NoKwargs} \cup {[has_num_classes |-> TRUE, num_classes |-> c] : c \in ClassCounts}

DenseNetDefaults ==
    [growth_rate |-> DefaultGrowthRate, block_config |-> DefaultBlockConfig,
     num_init_features |-> DefaultNumInitFeatures, bn_size |-> DefaultBnSize,
     drop_rate |-> DefaultDropRate, num_classes |-> DefaultNumClasses]

DenseNetCalls ==
    [fn : {"DenseNet"}, pretrained : {FALSE}, kwargs : {NoKwargs},
     a : [growth_rate : GrowthRates, block_config : BlockConfigs,
          num_init_features : InitFeatures, bn_size : BnSizes,
          drop_rate : DropRates, num_classes : ClassCounts]]

Densenet121Calls ==
    [fn : {"densenet121"}, pretrained : BOOLEAN, kwargs : Kwargs, a : {DenseNetDefaults}]

\* densenet121: the arguments it passes to DenseNet
Densenet121Args(kwargs) ==
    [DenseNetDefaults EXCEPT !.num_init_features = 64, !.growth_rate = 32,
                             !.block_config = <<6, 12, 24, 16>>]

\* the batches fed to the network: every small size, square or nearly so, and the
\* notebook's own crop (RandomSizedCrop(224), CenterCrop(224))
Images ==
    {i \in {[n |-> n, h |-> h, w |-> h + d] :
               n \in BatchSizes, h \in 1..MaxSize, d \in WidthOffsets} : i.w >= 1}
    \cup {[n |-> n, h |-> CropSize, w |-> CropSize] : n \in BatchSizes}

NoImage == [n |-> 0, h |-> 0, w |-> 0]

NoTensor == [ok |-> FALSE, n |-> 0, h |-> 0, w |-> 0, segs |-> <<>>]

NoOut == [ok |-> FALSE, n |-> 0, f |-> 0]

(***************************************************************************)
(* train_model's state.                                                    *)
(***************************************************************************)
LiveModel == [copy |-> FALSE, params |-> 0]

NoModel == [copy |-> FALSE, params |-> -1]

NoOptimizer == [lr_exp |-> -1, printed |-> FALSE]

\* a fraction below every accuracy
NoAcc == <<-1, 1>>

TrainEntry ==
    /\ epoch = 0
    /\ phase = "train"
    /\ bi = 0
    /\ running_corrects = 0
    /\ optimizer = NoOptimizer
    /\ params = 0
    /\ best_acc = <<0, 1>>                  \* best_acc = 0.0
    /\ best_model = LiveModel               \* best_model = model
    /\ returned_model = NoModel
    /\ fault = "none"
    /\ n_backward = 0
    /\ n_step = 0
    /\ n_train = 0
    /\ n_val = 0
    /\ params_after_train = 0
    /\ max_val = NoAcc
    /\ params_at_max = 0
    /\ sched_log = <<>>

\* train_model is not running
TrainIdle ==
    /\ tpc = "idle"
    /\ num_epochs = 0
    /\ lr_decay_epoch = 1
    /\ train_size = 1
    /\ val_size = 1
    /\ TrainEntry

\* visualize_model is not running
VisIdle ==
    /\ vpc = "idle"
    /\ num_images = 0
    /\ vi = 0
    /\ rendered = <<>>

\* the network is not being built or run
NetIdle ==
    /\ pc = "idle"
    /\ call = [fn |-> "none"]
    /\ img = NoImage
    /\ args = DenseNetDefaults
    /\ features = <<>>
    /\ num_features = 0
    /\ stage = 0
    /\ classifier = NoModule
    /\ pretrained_loaded = FALSE
    /\ x = NoTensor
    /\ xin = NoTensor
    /\ last = NoModule
    /\ pos = <<0, 0>>
    /\ out = NoOut

NetInit ==
    /\ TrainIdle
    /\ VisIdle
    /\ pc = "call"
    /\ call \in DenseNetCalls \cup Densenet121Calls
    /\ img = NoImage
    /\ args = DenseNetDefaults
    /\ features = <<>>
    /\ num_features = 0
    /\ stage = 0
    /\ classifier = NoModule
    /\ pretrained_loaded = FALSE
    /\ x = NoTensor
    /\ xin = NoTensor
    /\ last = NoModule
    /\ pos = <<0, 0>>
    /\ out = NoOut

fwdvars == <<x, xin, last, pos, out>>

(***************************************************************************)
(* Construction.                                                           *)
(***************************************************************************)
\* the call enters DenseNet.__init__ (through densenet121 or directly)
Enter ==
    /\ pc = "call"
    /\ args' = IF call.fn = "densenet121" THEN Densenet121Args(call.kwargs) ELSE call.a
    /\ pc' = "stem"
    /\ UNCHANGED <<trainvars, visvars, call, features, num_features, stage, classifier, pretrained_loaded, img>>
    /\ UNCHANGED fwdvars

\* "First convolution", and num_features = num_init_features
BuildStem ==
    /\ pc = "stem"
    /\ features' = << Conv2d(<<"conv0">>, InputChannels, args.num_init_features, 7, 2, 3),
                      BatchNorm2d(args.num_init_features),
                      ReLU,
                      MaxPool2d(3, 2, 1) >>
    /\ num_features' = args.num_init_features
    /\ stage' = 0
    /\ pc' = "stages"
    /\ UNCHANGED <<trainvars, visvars, call, args, classifier, pretrained_loaded, img>>
    /\ UNCHANGED fwdvars

\* num_features after the block of num_layers layers
AfterBlock(nf, num_layers, growth_rate) == nf + num_layers * growth_rate

\* (mutant) the halving rounds up
AfterTransitionCeil(nf) == (nf + 1) \div 2

\* num_features after the transition
AfterTransition(nf) == nf \div 2

\* whether a transition follows stage i (0-based) of a configuration of n stages
HasTransition(i, n) == i # n - 1

\* one iteration of "for i, num_layers in enumerate(block_config)"
BuildStage ==
    /\ pc = "stages"
    /\ stage < Len(args.block_config)
    /\ LET num_layers == args.block_config[stage + 1]
           block == DenseBlockInit(<<"denseblock", stage + 1>>, num_layers, num_features,
                                   args.bn_size, args.growth_rate, args.drop_rate)
           nf == AfterBlock(num_features, num_layers, args.growth_rate)
       IN IF HasTransition(stage, Len(args.block_config))
          THEN /\ features' = features \o
                     << block, TransitionInit(<<"transition", stage + 1>>, nf, AfterTransition(nf)) >>
               /\ num_features' = AfterTransition(nf)
          ELSE /\ features' = Append(features, block)
               /\ num_features' = nf
    /\ stage' = stage + 1
    /\ UNCHANGED <<trainvars, visvars, pc, call, args, classifier, pretrained_loaded, img>>
    /\ UNCHANGED fwdvars

\* the classifier DenseNet.__init__ builds
ClassifierInit(nf, num_classes) == Linear(nf, num_classes)

\* "Final batch norm" and "Linear layer"
BuildHead ==
    /\ pc = "stages"
    /\ stage = Len(args.block_config)
    /\ features' = Append(features, BatchNorm2d(num_features))
    /\ classifier' = ClassifierInit(num_features, args.num_classes)
    /\ pc' = "built"
    /\ UNCHANGED <<trainvars, visvars, call, args, num_features, stage, pretrained_loaded, img>>
    /\ UNCHANGED fwdvars

\* densenet121 returns the model, after load_state_dict when pretrained
Return121 ==
    /\ pc = "built"
    /\ call.fn = "densenet121"
    /\ pretrained_loaded' = call.pretrained
    /\ pc' = "returned"
    /\ UNCHANGED <<trainvars, visvars, call, args, features, num_features, stage, classifier, img>>
    /\ UNCHANGED fwdvars

\* the fine-tune cell: num_ftrs = classifier.in_features; classifier = nn.Linear(num_ftrs, 2)
FineTuneHead ==
    /\ pc = "returned"
    /\ pretrained_loaded
    /\ classifier' = Linear(classifier.fin, FineTuneClasses)
    /\ pc' = "finetuned"
    /\ UNCHANGED <<trainvars, visvars, call, args, features, num_features, stage, pretrained_loaded, img>>
    /\ UNCHANGED fwdvars

(***************************************************************************)
(* The forward pass: shapes, and where the channels come from.             *)
(***************************************************************************)
RECURSIVE SumK(_)
SumK(segs) == IF segs = <<>> THEN 0 ELSE segs[1].k + SumK(Tail(segs))

\* the number of channels of a tensor
Channels(t) == SumK(t.segs)

Raised == NoTensor

\* the output size of a convolution or pooling window along one axis
\* (floor mode, dilation 1); at most 0 when the window does not fit
WindowOut(size, k, s, p) == ((size + 2 * p - k) \div s) + 1

\* a tensor computed by module src from t, with c channels and the given sizes
Computed(t, src, c, h, w) ==
    [ok |-> TRUE, n |-> t.n, h |-> h, w |-> w, segs |-> << [src |-> src, k |-> c] >>]

\* nn.Conv2d's forward; a convolution of no channels raises or passes, by the build (e)
Conv2dFwd(m, t, e) ==
    LET oh == WindowOut(t.h, m.k, m.s, m.p)
        ow == WindowOut(t.w, m.k, m.s, m.p)
    IN IF ~t.ok \/ Channels(t) # m.cin \/ oh <= 0 \/ ow <= 0 THEN Raised
       ELSE IF (m.cin = 0 \/ m.cout = 0) /\ ~e THEN Raised
       ELSE Computed(t, m.name, m.cout, oh, ow)

\* nn.BatchNorm2d's forward
BatchNorm2dFwd(m, t, e) ==
    IF ~t.ok \/ Channels(t) # m.c THEN Raised
    ELSE IF m.c = 0 /\ ~e THEN Raised
    ELSE Computed(t, <<"bn">>, m.c, t.h, t.w)

\* nn.ReLU's forward
ReLUFwd(t) == IF ~t.ok THEN Raised ELSE Computed(t, <<"relu">>, Channels(t), t.h, t.w)

\* nn.MaxPool2d's and nn.AvgPool2d's forward
Pool2dFwd(m, t) ==
    LET oh == WindowOut(t.h, m.k, m.s, m.p)
        ow == WindowOut(t.w, m.k, m.s, m.p)
    IN IF ~t.ok \/ oh <= 0 \/ ow <= 0 THEN Raised
       ELSE Computed(t, <<m.kind>>, Channels(t), oh, ow)

\* a leaf module's forward
LeafFwd(m, t, e) ==
    CASE m.kind = "conv" -> Conv2dFwd(m, t, e)
      [] m.kind = "bn" -> BatchNorm2dFwd(m, t, e)
      [] m.kind = "relu" -> ReLUFwd(t)
      [] m.kind \in {"maxpool", "avgpool"} -> Pool2dFwd(m, t)

\* nn.Sequential.forward over leaf modules
RECURSIVE SequentialFwd(_, _, _)
SequentialFwd(mods, t, e) ==
    IF mods = <<>> THEN t ELSE SequentialFwd(Tail(mods), LeafFwd(mods[1], t, e), e)

\* F.dropout: the same shape, computed from t
Dropout(t) == IF ~t.ok THEN Raised ELSE [t EXCEPT !.segs = << [src |-> <<"dropout">>, k |-> Channels(t)] >>]

\* torch.cat([a, b], 1)
Cat(a, b) ==
    IF ~a.ok \/ ~b.ok \/ a.n # b.n \/ a.h # b.h \/ a.w # b.w THEN Raised
    ELSE [a EXCEPT !.segs = a.segs \o b.segs]

\* (mutant) the new features are returned without the input
DenseLayerFwdNoCat(m, t, e) ==
    LET new_features == SequentialFwd(m.mods, t, e)
    IN IF m.drop_rate > 0 THEN Dropout(new_features) ELSE new_features

\* _DenseLayer.forward
DenseLayerFwd(m, t, e) ==
    LET new_features == SequentialFwd(m.mods, t, e)
        dropped == IF m.drop_rate > 0 THEN Dropout(new_features) ELSE new_features
    IN Cat(t, dropped)

\* _Transition's forward (nn.Sequential.forward)
TransitionFwd(m, t, e) == SequentialFwd(m.mods, t, e)

\* model(inputs) is called on a built network
StartForward ==
    /\ \/ pc = "built" /\ call.fn = "DenseNet"
       \/ pc = "returned"
       \/ pc = "finetuned"
    /\ \E i \in Images :
         /\ img' = i
         /\ x' = [ok |-> TRUE, n |-> i.n, h |-> i.h, w |-> i.w,
                  segs |-> << [src |-> <<"input">>, k |-> InputChannels] >>]
    /\ xin' = NoTensor
    /\ last' = NoModule
    /\ pos' = <<1, 0>>
    /\ out' = NoOut
    /\ pc' = "features"
    /\ UNCHANGED <<trainvars, visvars, call, args, features, num_features, stage, classifier, pretrained_loaded>>

\* where self.features' forward goes after a module returned t
AfterModule(t, nextpos) ==
    IF ~t.ok THEN "raised"
    ELSE IF nextpos[1] > Len(features) THEN "relu"
    ELSE "features"

\* self.features(x): the next top-level module that is neither a block nor a transition
LeafStep ==
    /\ pc = "features"
    /\ features[pos[1]].kind \notin {"denseblock", "transition"}
    /\ \E e \in BOOLEAN : x' = LeafFwd(features[pos[1]], x, e)
    /\ xin' = x
    /\ last' = features[pos[1]]
    /\ pos' = <<pos[1] + 1, 0>>
    /\ pc' = AfterModule(x', pos')
    /\ UNCHANGED <<trainvars, visvars, call, args, features, num_features, stage, classifier,
                   pretrained_loaded, img, out>>

\* self.features(x): the next layer of the current dense block
DenseLayerStep ==
    /\ pc = "features"
    /\ features[pos[1]].kind = "denseblock"
    /\ pos[2] < Len(features[pos[1]].layers)
    /\ LET layer == features[pos[1]].layers[pos[2] + 1]
       IN /\ \E e \in BOOLEAN : x' = DenseLayerFwd(layer, x, e)
          /\ last' = layer
    /\ xin' = x
    /\ pos' = IF pos[2] + 1 = Len(features[pos[1]].layers)
              THEN <<pos[1] + 1, 0>> ELSE <<pos[1], pos[2] + 1>>
    /\ pc' = AfterModule(x', pos')
    /\ UNCHANGED <<trainvars, visvars, call, args, features, num_features, stage, classifier,
                   pretrained_loaded, img, out>>

\* self.features(x): a dense block of no layers returns its input
EmptyBlockStep ==
    /\ pc = "features"
    /\ features[pos[1]].kind = "denseblock"
    /\ Len(features[pos[1]].layers) = 0
    /\ x' = x
    /\ xin' = x
    /\ last' = features[pos[1]]
    /\ pos' = <<pos[1] + 1, 0>>
    /\ pc' = AfterModule(x', pos')
    /\ UNCHANGED <<trainvars, visvars, call, args, features, num_features, stage, classifier,
                   pretrained_loaded, img, out>>

\* self.features(x): the next module is a transition
TransitionStep ==
    /\ pc = "features"
    /\ features[pos[1]].kind = "transition"
    /\ \E e \in BOOLEAN : x' = TransitionFwd(features[pos[1]], x, e)
    /\ xin' = x
    /\ last' = features[pos[1]]
    /\ pos' = <<pos[1] + 1, 0>>
    /\ pc' = AfterModule(x', pos')
    /\ UNCHANGED <<trainvars, visvars, call, args, features, num_features, stage, classifier,
                   pretrained_loaded, img, out>>

\* out = F.relu(features, inplace=True)
FinalRelu ==
    /\ pc = "relu"
    /\ x' = ReLUFwd(x)
    /\ xin' = x
    /\ last' = ReLU
    /\ pc' = "pool"
    /\ UNCHANGED <<trainvars, visvars, call, args, features, num_features, stage, classifier,
                   pretrained_loaded, img, pos, out>>

\* t.view(n, -1): n rows of all the remaining elements
View(t, n) == [ok |-> TRUE, n |-> n, f |-> (t.n * Channels(t) * t.h * t.w) \div n]

\* (mutant) the pooling window is one pixel larger
AvgPoolViewWide(t) ==
    LET pooled == Pool2dFwd(AvgPool2d(FinalPoolKernel + 1, FinalPoolKernel + 1), t)
    IN IF ~pooled.ok THEN NoOut ELSE View(pooled, t.n)

\* F.avg_pool2d(out, kernel_size=7).view(features.size(0), -1)
AvgPoolView(t) ==
    LET pooled == Pool2dFwd(AvgPool2d(FinalPoolKernel, FinalPoolKernel), t)
    IN IF ~pooled.ok THEN NoOut ELSE View(pooled, t.n)

\* nn.Linear's forward on a 2-d tensor
LinearFwd(m, o, e) ==
    IF ~o.ok \/ o.f # m.fin THEN NoOut
    ELSE IF m.fin = 0 /\ ~e THEN NoOut
    ELSE [ok |-> TRUE, n |-> o.n, f |-> m.fout]

\* out = F.avg_pool2d(out, kernel_size=7).view(features.size(0), -1)
FinalPool ==
    /\ pc = "pool"
    /\ out' = AvgPoolView(x)
    /\ pc' = IF out'.ok THEN "classifier" ELSE "raised"
    /\ UNCHANGED <<trainvars, visvars, call, args, features, num_features, stage, classifier,
                   pretrained_loaded, img, x, xin, last, pos>>

\* out = self.classifier(out); return out
Classify ==
    /\ pc = "classifier"
    /\ \E e \in BOOLEAN : out' = LinearFwd(classifier, out, e)
    /\ pc' = IF out'.ok THEN "done" ELSE "raised"
    /\ UNCHANGED <<trainvars, visvars, call, args, features, num_features, stage, classifier,
                   pretrained_loaded, img, x, xin, last, pos>>

NetNext ==
    \/ Enter \/ BuildStem \/ BuildStage \/ BuildHead \/ Return121 \/ FineTuneHead
    \/ StartForward \/ LeafStep \/ DenseLayerStep \/ EmptyBlockStep \/ TransitionStep
    \/ FinalRelu \/ FinalPool \/ Classify

SpecNet == NetInit /\ [][NetNext]_vars

(***************************************************************************)
(* train_model.  The model's parameters are identified by the number of    *)
(* optimizer steps applied to them; a deep copy keeps the number it was    *)
(* made at.  An accuracy is the fraction <<corrects, dataset size>>.       *)
(***************************************************************************)
TrainInit ==
    /\ NetIdle
    /\ VisIdle
    /\ tpc = "loop"
    /\ num_epochs \in 0..MaxEpochs
    /\ lr_decay_epoch \in DecayPeriods
    /\ train_size \in 1..MaxDatasetSize
    /\ val_size \in 1..MaxDatasetSize
    /\ TrainEntry

\* a > b for fractions with positive denominators
FracGt(a, b) == a[1] * b[2] > b[1] * a[2]

\* len(dset_loaders[phase]): the batches of a loader over size samples
NumBatches(size) == (size + LoaderBatchSize - 1) \div LoaderBatchSize

\* the number of samples of batch j (1-based) of a loader over size samples
BatchLen(size, j) ==
    IF j * LoaderBatchSize <= size THEN LoaderBatchSize ELSE size - (j - 1) * LoaderBatchSize

PhaseSize == IF phase = "train" THEN train_size ELSE val_size

\* (mutant) the decay starts one epoch early
OptimSchedulerEarly(e, d) == [lr_exp |-> (e + 1) \div d, printed |-> (e % d = 0)]

\* optim_scheduler_ft: the optimizer for the epoch, its learning rate
\* init_lr * 0.1 ** lr_exp, and whether 'LR is set to' is printed
OptimScheduler(e, d) == [lr_exp |-> e \div d, printed |-> (e % d = 0)]

\* copy.deepcopy(model)
DeepCopy(p) == [copy |-> TRUE, params |-> p]

\* the parameters of a model object, the live model's being the current ones
ParamsOf(m) == IF m.copy THEN m.params ELSE params

trainconst == <<num_epochs, lr_decay_epoch, train_size, val_size>>

\* "for epoch in range(num_epochs)": the next epoch begins
StartEpoch ==
    /\ tpc = "loop"
    /\ epoch < num_epochs
    /\ phase' = "train"
    /\ tpc' = "phase"
    /\ UNCHANGED <<netvars, visvars, sched_log, trainconst, epoch, bi, running_corrects, optimizer, params,
                   best_acc, best_model, returned_model, fault, n_backward, n_step,
                   n_train, n_val, params_after_train, max_val, params_at_max>>

\* "for phase in ['train', 'val']": the phase begins
StartPhase ==
    /\ tpc = "phase"
    /\ optimizer' = IF phase = "train" THEN OptimScheduler(epoch, lr_decay_epoch) ELSE optimizer
    /\ sched_log' = IF phase = "train"
                    THEN Append(sched_log, [epoch |-> epoch, at_batch |-> n_train,
                                            lr_exp |-> optimizer'.lr_exp,
                                            printed |-> optimizer'.printed])
                    ELSE sched_log
    /\ running_corrects' = 0
    /\ bi' = 0
    /\ tpc' = "batches"
    /\ UNCHANGED <<netvars, visvars, trainconst, epoch, phase, params, best_acc, best_model,
                   returned_model, fault, n_backward, n_step, n_train, n_val,
                   params_after_train, max_val, params_at_max>>

\* the loop body for one training batch, of which c predictions are right
TrainBatch ==
    /\ tpc = "batches"
    /\ phase = "train"
    /\ bi < NumBatches(train_size)
    /\ \E c \in 0..BatchLen(train_size, bi + 1) : running_corrects' = running_corrects + c
    /\ n_backward' = n_backward + 1
    /\ n_step' = n_step + 1
    /\ params' = params + 1
    /\ n_train' = n_train + 1
    /\ bi' = bi + 1
    /\ UNCHANGED <<netvars, visvars, sched_log, trainconst, tpc, epoch, phase, optimizer, best_acc, best_model,
                   returned_model, fault, n_val, params_after_train, max_val, params_at_max>>

\* (mutant) the validation batch is also backpropagated and stepped
ValBatchStepping ==
    /\ tpc = "batches"
    /\ phase = "val"
    /\ bi < NumBatches(val_size)
    /\ \E c \in 0..BatchLen(val_size, bi + 1) : running_corrects' = running_corrects + c
    /\ n_backward' = n_backward + 1
    /\ n_step' = n_step + 1
    /\ params' = params + 1
    /\ n_val' = n_val + 1
    /\ bi' = bi + 1
    /\ UNCHANGED <<netvars, visvars, sched_log, trainconst, tpc, epoch, phase, optimizer, best_acc, best_model,
                   returned_model, fault, n_train, params_after_train, max_val, params_at_max>>

\* the loop body for one validation batch, of which c predictions are right
ValBatch ==
    /\ tpc = "batches"
    /\ phase = "val"
    /\ bi < NumBatches(val_size)
    /\ \E c \in 0..BatchLen(val_size, bi + 1) : running_corrects' = running_corrects + c
    /\ n_val' = n_val + 1
    /\ bi' = bi + 1
    /\ UNCHANGED <<netvars, visvars, sched_log, trainconst, tpc, epoch, phase, optimizer, params, best_acc,
                   best_model, returned_model, fault, n_backward, n_step, n_train,
                   params_after_train, max_val, params_at_max>>

\* the steps of the loop body that can raise, in the phase
BatchSteps(ph) ==
    IF ph = "train" THEN {"load", "forward", "loss", "backward", "step"}
    ELSE {"load", "forward", "loss"}

\* (mutant) the failure is swallowed and the loop goes on to the next batch
BatchRaisesSwallowed ==
    /\ tpc = "batches"
    /\ bi < NumBatches(PhaseSize)
    /\ \E s \in BatchSteps(phase) : fault' = s
    /\ bi' = bi + 1
    /\ UNCHANGED <<netvars, visvars, sched_log, trainconst, tpc, epoch, phase, running_corrects, optimizer,
                   params, best_acc, best_model, returned_model, n_backward, n_step,
                   n_train, n_val, params_after_train, max_val, params_at_max>>

\* a step of the loop body raises: nothing catches it, train_model is left.
\* A raise inside optimizer.step() may leave the parameters updated or not.
BatchRaises ==
    /\ tpc = "batches"
    /\ bi < NumBatches(PhaseSize)
    /\ \E s \in BatchSteps(phase) :
         /\ fault' = s
         /\ n_backward' = IF s = "step" THEN n_backward + 1 ELSE n_backward
         /\ params' \in IF s = "step" THEN {params, params + 1} ELSE {params}
    /\ tpc' = "raised"
    /\ UNCHANGED <<netvars, visvars, sched_log, trainconst, epoch, phase, bi, running_corrects, optimizer,
                   best_acc, best_model, returned_model, n_step, n_train, n_val,
                   params_after_train, max_val, params_at_max>>

\* "if phase == 'val' and epoch_acc > best_acc": best_acc and best_model afterwards
KeepBest(acc) ==
    IF phase = "val" /\ FracGt(acc, best_acc)
    THEN [acc |-> acc, model |-> DeepCopy(params)]
    ELSE [acc |-> best_acc, model |-> best_model]

\* the end of a phase: epoch_acc, the best model's update, the next phase or epoch
EndPhase ==
    /\ tpc = "batches"
    /\ bi = NumBatches(PhaseSize)
    /\ LET epoch_acc == <<running_corrects, PhaseSize>>
       IN /\ best_acc' = KeepBest(epoch_acc).acc
          /\ best_model' = KeepBest(epoch_acc).model
          /\ IF phase = "val" /\ FracGt(epoch_acc, max_val)
             THEN max_val' = epoch_acc /\ params_at_max' = params
             ELSE UNCHANGED <<max_val, params_at_max>>
    /\ IF phase = "train"
       THEN /\ phase' = "val"
            /\ tpc' = "phase"
            /\ params_after_train' = params
            /\ epoch' = epoch
       ELSE /\ phase' = phase
            /\ tpc' = "loop"
            /\ epoch' = epoch + 1
            /\ UNCHANGED params_after_train
    /\ UNCHANGED <<netvars, visvars, sched_log, trainconst, bi, running_corrects, optimizer, params,
                   returned_model, fault, n_backward, n_step, n_train, n_val>>

\* after the last epoch: "return best_model"
ReturnBest ==
    /\ tpc = "loop"
    /\ epoch = num_epochs
    /\ returned_model' = best_model
    /\ tpc' = "returned"
    /\ UNCHANGED <<netvars, visvars, sched_log, trainconst, epoch, phase, bi, running_corrects, optimizer,
                   params, best_acc, best_model, fault, n_backward, n_step, n_train,
                   n_val, params_after_train, max_val, params_at_max>>

TrainNext ==
    \/ StartEpoch \/ StartPhase \/ TrainBatch \/ ValBatch \/ BatchRaises
    \/ EndPhase \/ ReturnBest

SpecTrain == TrainInit /\ [][TrainNext]_vars

(***************************************************************************)
(* visualize_model.  Of a batch only the first sample matters: its label   *)
(* and the class the model predicts for it.                                *)
(***************************************************************************)
\* dset_classes: the class folders of the ants and bees data
dset_classes == <<"ants", "bees">>

ClassIndices == 0..(Len(dset_classes) - 1)

ClassName(c) == dset_classes[c + 1]

VisInit ==
    /\ NetIdle
    /\ tpc = "idle"
    /\ num_epochs = 0
    /\ lr_decay_epoch = 1
    /\ train_size = 1
    /\ val_size \in 1..MaxDatasetSize
    /\ TrainEntry
    /\ vpc = "loop"
    /\ num_images \in 0..MaxImages
    /\ vi = 0
    /\ rendered = <<>>

\* the title visualize_model gives the figure of a batch whose first sample
\* has that label and that predicted class: dset_classes[labels.data[0]]
FigureTitle(label, pred) == ClassName(label)

\* the loop body for one validation batch: the figure is shown, and the loop is
\* left after figure number num_images
VisBatch ==
    /\ vpc = "loop"
    /\ vi < NumBatches(val_size)
    /\ \E label \in ClassIndices, pred \in ClassIndices :
         rendered' = Append(rendered, [title |-> FigureTitle(label, pred),
                                       label |-> label, pred |-> pred])
    /\ IF vi = num_images - 1
       THEN vpc' = "done" /\ vi' = vi
       ELSE vpc' = vpc /\ vi' = vi + 1
    /\ UNCHANGED <<netvars, trainvars, num_images>>

\* the loader has no more batches: the loop ends
VisExhausted ==
    /\ vpc = "loop"
    /\ vi = NumBatches(val_size)
    /\ vpc' = "done"
    /\ UNCHANGED <<netvars, trainvars, num_images, vi, rendered>>

VisNext == VisBatch \/ VisExhausted

SpecVis == VisInit /\ [][VisNext]_vars

(***************************************************************************)
(* Properties of the construction and of the forward pass.                 *)
(***************************************************************************)
\* the number of stages of the configuration being built
NumStages == Len(args.block_config)

\* the indices in features of the module of that kind and name
Where(kind, name) ==
    {i \in 1..Len(features) : features[i].kind = kind /\ features[i].name = name}

BlockAt(k) == features[CHOOSE i \in Where("denseblock", <<"denseblock", k>>) : TRUE]

TransitionAt(k) == features[CHOOSE i \in Where("transition", <<"transition", k>>) : TRUE]

\* the channel counts the configuration calls for: entering stage k, after its
\* concatenations, and leaving it (halved unless the stage is the last)
RECURSIVE Entering(_)
Concatenated(k) == Entering(k) + args.block_config[k] * args.growth_rate
Leaving(k) == IF k # NumStages THEN Concatenated(k) \div 2 ELSE Concatenated(k)
Entering(k) == IF k = 1 THEN args.num_init_features ELSE Leaving(k - 1)

\* C1: in every DenseNet under construction or built, each stage built so far
\* is a block built for the count leaving the stage before it (the initial
\* count for the first), whose first layer accepts that count; a stage that is
\* not the last is followed by one transition from the count after
\* concatenation to its floor half; the last stage is followed by none.
StageChannelsChain ==
    pc \in {"stages", "built"} =>
      /\ \A k \in 1..stage :
           /\ Cardinality(Where("denseblock", <<"denseblock", k>>)) = 1
           /\ BlockAt(k).num_input_features = Entering(k)
           /\ Len(BlockAt(k).layers) = args.block_config[k]
           /\ Len(BlockAt(k).layers) > 0 =>
                /\ BlockAt(k).layers[1].num_input_features = Entering(k)
                /\ BlockAt(k).layers[1].mods[1].c = Entering(k)
                /\ BlockAt(k).layers[1].mods[3].cin = Entering(k)
           /\ IF k # NumStages
              THEN /\ Cardinality(Where("transition", <<"transition", k>>)) = 1
                   /\ TransitionAt(k).num_input_features = Concatenated(k)
                   /\ TransitionAt(k).num_output_features = Concatenated(k) \div 2
                   /\ TransitionAt(k).mods[3].cin = Concatenated(k)
                   /\ TransitionAt(k).mods[3].cout = Leaving(k)
              ELSE Where("transition", <<"transition", k>>) = {}
      /\ num_features = IF stage = 0 THEN args.num_init_features ELSE Leaving(stage)

\* C1's case: a built network of two non-empty stages whose first stage leaves
\* an odd count before halving
StageChannelsChainWitness ==
    /\ pc = "built"
    /\ call.fn = "DenseNet"
    /\ NumStages = 2
    /\ args.block_config[1] > 0
    /\ args.block_config[2] > 0
    /\ TransitionAt(1).num_input_features % 2 = 1
    /\ BlockAt(2).layers[1].num_input_features = TransitionAt(1).num_output_features

\* the size of the feature map after the stem (conv0, pool0) and after t transitions
RECURSIVE Halved(_, _)
Halved(size, t) == IF t = 0 THEN size ELSE Halved(size \div 2, t - 1)
FinalMap(size) == Halved(((size - 1) \div 4) + 1, NumStages - 1)

\* the forward pass has ended, by returning or by raising
ForwardEnded == pc \in {"done", "raised"} /\ img # NoImage

\* every convolution and batch norm of the network has at least one channel
PositiveChannels ==
    \A i \in 1..Len(features) :
        features[i].kind = "transition" => features[i].num_output_features >= 1

\* C2 as stated: for every H and W at or above the minimum size (the final
\* feature map is at least 7 by 7) the forward pass returns a tensor of shape
\* (N, num_classes).
ForwardShapeAnySize ==
    (ForwardEnded /\ PositiveChannels
       /\ FinalMap(img.h) >= FinalPoolKernel /\ FinalMap(img.w) >= FinalPoolKernel)
    => (pc = "done" /\ out.ok /\ out.n = img.n /\ out.f = classifier.fout)

\* C2 as amended: through a network all of whose layers have at least one
\* channel, the forward pass returns exactly when the final feature map's
\* height and width both lie in 7..13, so that the 7x7 pooling leaves one value
\* per channel, and it then returns a tensor of shape (N, num_classes); on
\* smaller inputs the pooling raises, and on larger ones the flattened width is
\* a multiple of the channel count and the classifier raises.
ForwardShapeInWindow ==
    LET fits(s) == FinalMap(s) >= FinalPoolKernel /\ FinalMap(s) < 2 * FinalPoolKernel
    IN (ForwardEnded /\ PositiveChannels) =>
         /\ pc = "done" <=> (fits(img.h) /\ fits(img.w))
         /\ pc = "done" => /\ out.ok /\ out.n = img.n /\ out.f = classifier.fout
                           /\ x.h = FinalMap(img.h) /\ x.w = FinalMap(img.w)
                           /\ Channels(x) = classifier.fin

\* C2's case: a forward pass that returns on an input that is not 224x224,
\* through a network with a transition
ForwardShapeWitness ==
    /\ pc = "done"
    /\ img.h # CropSize
    /\ img.h # img.w
    /\ NumStages = 2
    /\ out.f = args.num_classes

\* the class count the caller configured the network with
ConfiguredClasses(c) ==
    IF c.fn = "DenseNet" THEN c.a.num_classes
    ELSE IF c.kwargs.has_num_classes THEN c.kwargs.num_classes
    ELSE DefaultNumClasses

\* C3: when the constructor has returned, the classifier's output size is the
\* class count the caller configured (num_classes given to DenseNet or, as a
\* keyword, to densenet121), its input size is the count given to the final
\* batch norm, and that count is 1024 for densenet121.
ClassifierMatchesConfig ==
    pc = "built" =>
      /\ classifier.fout = ConfiguredClasses(call)
      /\ classifier.fin = features[Len(features)].c
      /\ classifier.fin = Leaving(NumStages)
      /\ call.fn = "densenet121" => classifier.fin = 1024

\* C4: a dense layer applied to an input with the channel count it was built
\* for returns a tensor of the same batch and spatial sizes whose channels are
\* the input's channels followed by growth_rate channels computed by the layer
\* (by its second convolution, or by dropout from it when drop_rate > 0).
DenseLayerConcatenates ==
    (pc \in {"features", "relu"} /\ last.kind = "denselayer" /\ x.ok) =>
      /\ Channels(xin) = last.num_input_features
      /\ Channels(x) = last.num_input_features + last.growth_rate
      /\ x.n = xin.n /\ x.h = xin.h /\ x.w = xin.w
      /\ Len(x.segs) = Len(xin.segs) + 1
      /\ SubSeq(x.segs, 1, Len(xin.segs)) = xin.segs
      /\ x.segs[Len(x.segs)].k = last.growth_rate
      /\ x.segs[Len(x.segs)].src =
            IF last.drop_rate > 0 THEN <<"dropout">> ELSE <<last.name, "conv.2">>

\* C4's case: a layer of the second block, with dropout, has run on an input
\* of several channels
DenseLayerConcatenatesWitness ==
    /\ pc \in {"features", "relu"}
    /\ last.kind = "denselayer"
    /\ x.ok
    /\ last.drop_rate > 0
    /\ last.name[1][2] = 2
    /\ Channels(xin) > 1
    /\ Len(x.segs) = 2

\* C5: in every block of the network, layer j (1-based) is built for the
\* block's input count plus (j-1) * growth_rate; in the forward pass each layer
\* receives exactly the count it was built for and never raises on it, the
\* tensor after layer j has the block's input count plus j * growth_rate
\* channels, and a block of no layers returns its input.
DenseBlockCompatible ==
    /\ \A i \in 1..Len(features) :
         (pc \in {"stages", "built"} /\ features[i].kind = "denseblock") =>
           \A j \in 1..Len(features[i].layers) :
              features[i].layers[j].num_input_features =
                 features[i].num_input_features + (j - 1) * args.growth_rate
    /\ (last.kind = "denselayer" /\ xin.ok /\ Channels(xin) > 0) =>
         /\ x.ok
         /\ Channels(xin) = last.num_input_features
         /\ Channels(x) = BlockAt(last.name[1][2]).num_input_features
                            + last.name[3] * last.growth_rate
    /\ (last.kind = "denseblock" /\ xin.ok) => x = xin

\* C5's case: the last layer of a block of several layers has run
DenseBlockCompatibleWitness ==
    /\ last.kind = "denselayer"
    /\ x.ok
    /\ last.name[3] >= 2
    /\ Len(BlockAt(last.name[1][2]).layers) = last.name[3]
    /\ Channels(x) = BlockAt(last.name[1][2]).num_input_features
                       + last.name[3] * args.growth_rate

\* C6 as stated: a transition outputs strictly fewer channels than it receives
\* and exactly half the height and half the width.
TransitionHalvesExactly ==
    (last.kind = "transition" /\ x.ok /\ PositiveChannels) =>
      /\ Channels(x) < Channels(xin)
      /\ 2 * x.h = xin.h
      /\ 2 * x.w = xin.w

\* C6 as amended: every transition is built from its input count to the floor
\* of half of it, which is strictly smaller when the input count is at least 1;
\* applied to a tensor of height and width at least 2 it returns the floor of
\* half the height and of half the width (the last row or column of an odd
\* size is dropped), and it raises on a height or width of 1.
TransitionHalvesFloor ==
    /\ \A i \in 1..Len(features) :
         (pc \in {"stages", "built"} /\ features[i].kind = "transition") =>
           /\ features[i].num_output_features = features[i].num_input_features \div 2
           /\ features[i].num_input_features >= 1 =>
                features[i].num_output_features < features[i].num_input_features
    /\ (last.kind = "transition" /\ xin.ok) =>
         /\ x.ok => /\ Channels(xin) = last.num_input_features
                    /\ Channels(x) = Channels(xin) \div 2
                    /\ Channels(xin) >= 1 => Channels(x) < Channels(xin)
                    /\ x.h = xin.h \div 2
                    /\ x.w = xin.w \div 2
                    /\ x.n = xin.n
         /\ (xin.h < 2 \/ xin.w < 2) => ~x.ok
         /\ (xin.h >= 2 /\ xin.w >= 2 /\ last.num_output_features >= 1) => x.ok

\* C6's case: a transition has returned on an odd height
TransitionHalvesWitness ==
    /\ last.kind = "transition"
    /\ x.ok
    /\ xin.h % 2 = 1
    /\ xin.w % 2 = 0
    /\ Channels(xin) % 2 = 1

(***************************************************************************)
(* Properties of train_model.                                              *)
(***************************************************************************)
\* C7: best_acc is never below the largest validation accuracy of the epochs
\* run; when train_model returns after at least one epoch, best_acc is that
\* largest accuracy and the returned model holds the parameters as they were at
\* the end of the first epoch that reached it.
BestModelIsFirstMax ==
    /\ tpc # "idle" => ~FracGt(max_val, best_acc)
    /\ (tpc = "returned" /\ num_epochs >= 1) =>
         /\ ~FracGt(best_acc, max_val)
         /\ ParamsOf(returned_model) = params_at_max

\* C9: once a step of a batch has raised, train_model has been left without a
\* returned model, and nothing more happens: no batch, phase or epoch is
\* processed and the step is not tried again.
FailureEndsRun ==
    /\ [](fault # "none" => (tpc = "raised" /\ returned_model = NoModel))
    /\ [][fault # "none" => UNCHANGED trainvars]_vars

\* C9's case: the optimizer step of a batch of the second epoch has raised
FailureEndsRunWitness ==
    /\ tpc = "raised"
    /\ fault = "step"
    /\ epoch = 1
    /\ bi < NumBatches(train_size)
    /\ epoch < num_epochs - 1

\* C10: in a run in which nothing raises, every training batch is
\* backpropagated and stepped exactly once and no validation batch is, so the
\* parameters during and at the end of a validation phase are those the
\* training phase of the epoch ended with; epochs alternate a whole training
\* phase and a whole validation phase, and at return exactly num_epochs epochs
\* have run over every batch of both loaders.
EpochsTrainThenValidate ==
    (tpc # "idle" /\ fault = "none") =>
      /\ n_backward = n_train
      /\ n_step = n_train
      /\ params = n_train
      /\ epoch <= num_epochs
      /\ tpc \in {"batches", "phase"} =>
           /\ epoch < num_epochs
           /\ n_train = epoch * NumBatches(train_size)
                          + (IF phase = "val" THEN NumBatches(train_size)
                             ELSE IF tpc = "batches" THEN bi ELSE 0)
           /\ n_val = epoch * NumBatches(val_size)
                          + (IF phase = "val" /\ tpc = "batches" THEN bi ELSE 0)
           /\ phase = "val" => params = params_after_train
      /\ tpc \in {"loop", "returned"} =>
           /\ n_train = epoch * NumBatches(train_size)
           /\ n_val = epoch * NumBatches(val_size)
           /\ epoch > 0 => params = params_after_train
      /\ tpc = "returned" => epoch = num_epochs

\* C10's case: a run of three epochs over loaders of two batches has returned
EpochsTrainThenValidateWitness ==
    /\ tpc = "returned"
    /\ num_epochs = 3
    /\ NumBatches(train_size) = 2
    /\ NumBatches(val_size) = 2
    /\ n_step = 6
    /\ n_val = 6

\* C11: optim_scheduler is called once per epoch, before the epoch's first
\* training batch, and the optimizer it returns serves the whole epoch; the
\* exponent of 0.1 in its learning rate is 0 for the epochs before
\* lr_decay_epoch, and from one epoch to the next it grows by exactly one when
\* the epoch is a multiple of lr_decay_epoch and stays otherwise; the
\* 'LR is set to' message is printed at exactly the epochs that are multiples
\* of lr_decay_epoch.
LrDecaysByPeriod ==
    tpc # "idle" =>
      /\ Len(sched_log) = IF tpc \in {"loop", "returned"} \/ (tpc = "phase" /\ phase = "train")
                          THEN epoch ELSE epoch + 1
      /\ \A k \in 1..Len(sched_log) :
           /\ sched_log[k].epoch = k - 1
           /\ sched_log[k].at_batch = (k - 1) * NumBatches(train_size)
           /\ k - 1 < lr_decay_epoch => sched_log[k].lr_exp = 0
           /\ k > 1 => sched_log[k].lr_exp - sched_log[k - 1].lr_exp
                          = (IF (k - 1) % lr_decay_epoch = 0 THEN 1 ELSE 0)
           /\ sched_log[k].printed <=> ((k - 1) % lr_decay_epoch = 0)
      /\ tpc = "batches" =>
           /\ optimizer.lr_exp = sched_log[Len(sched_log)].lr_exp
           /\ sched_log[Len(sched_log)].epoch = epoch

\* C11's case: a run of three epochs with a decay period of 2 has returned,
\* the third epoch's learning rate one power of 0.1 below the first two
LrDecaysByPeriodWitness ==
    /\ tpc = "returned"
    /\ lr_decay_epoch = 2
    /\ Len(sched_log) = 3
    /\ sched_log[2].lr_exp = 0
    /\ ~sched_log[2].printed
    /\ sched_log[3].lr_exp = 1
    /\ sched_log[3].printed

(***************************************************************************)
(* Properties of visualize_model.                                          *)
(***************************************************************************)
Min(a, b) == IF a < b THEN a ELSE b

\* C8: every figure shown is titled with the name of the class the model
\* predicted for its image, and for num_images >= 1 visualize_model ends having
\* shown min(num_images, number of validation batches) figures.
TitlesArePredictions ==
    num_images >= 1 =>
      /\ \A k \in 1..Len(rendered) : rendered[k].title = ClassName(rendered[k].pred)
      /\ vpc = "done" => Len(rendered) = Min(num_images, NumBatches(val_size))
====
